---------------------------- MODULE Spec2Model ----------------------------
(***************************************************************************)
(* Model of the RFID card session protocol of src/src/tools.py:            *)
(* card_session (lock, key candidates, detection, teardown),               *)
(* sector_session, the sector operations, the tasks that call them (the    *)
(* poller with its relay, the administrative handlers), and the two        *)
(* block-number functions.                                                 *)
(*                                                                         *)
(* One step of the model is one transport call (request, anticoll,         *)
(* select_tag, auth, read, write, stop_crypto1) or one lock operation,     *)
(* together with the local computation that follows it up to the next such *)
(* call.  Tasks are interleaved at every step, which includes every        *)
(* schedule asyncio can produce.                                           *)
(***************************************************************************)
EXTENDS Integers, Sequences, FiniteSets, TLC

(***************************************************************************)
(* Bounds                                                                  *)
(***************************************************************************)
\* card-session calls the one administrative task of SpecSession makes
MaxCalls == 2
\* card-session calls the administrative tasks of Spec make, all together
MaxConcurrentCalls == 2

(***************************************************************************)
(* Values                                                                  *)
(***************************************************************************)
\* Python's None, where a key or a UID is expected (a list of byte values)
None == <<-1>>

DEFAULT_KEY == <<255, 255, 255, 255, 255, 255>>

\* a 6-byte key as config.ini may hold it
KeyB == <<161, 162, 163, 164, 165, 166>>
\* a key of the wrong length
KeyShort == <<161, 162, 163>>

SECTOR_META == 1
SECTOR_USERNAME == 2
SECTOR_COLLMEX_ID == 3
SECTOR_PASSWORD == 4
FLAG_CASH_REGISTER == 1

\* mutant: the password sector first
SectorsBackwards ==
    <<SECTOR_PASSWORD, SECTOR_COLLMEX_ID, SECTOR_USERNAME, SECTOR_META>>

\* mutant: the username sector comes before the metadata sector
SectorsUsernameFirst ==
    <<SECTOR_USERNAME, SECTOR_META, SECTOR_COLLMEX_ID, SECTOR_PASSWORD>>

\* the sectors an operation walks through, in the order of the code
SECTORS == <<SECTOR_META, SECTOR_USERNAME, SECTOR_COLLMEX_ID, SECTOR_PASSWORD>>

\* config.get('meta_prefix'): "SL"
meta_prefix == <<83, 76>>

\* the UID of the card in the field, and the UID of another card
UidCard == <<4, 5, 6, 7>>
UidOther == <<9, 9, 9, 9>>

Poller == "poller"
Admins == {"admin1", "admin2"}
Tasks == {Poller} \cup Admins

(***************************************************************************)
(* Pure functions                                                          *)
(***************************************************************************)
get_start_block(sector) ==
    IF sector < 32 THEN sector * 4 ELSE 128 + (sector - 32) * 16

get_sector_trailer(sector) ==
    IF sector < 32 THEN (sector * 4) + 3 ELSE (sector * 16) + 15

\* _normalize_key: the key, or "ValueError"
NormalizeKeyRaises(key) == key # None /\ Len(key) # 6

RECURSIVE Repeat(_, _)
Repeat(x, n) == IF n = 0 THEN <<>> ELSE <<x>> \o Repeat(x, n - 1)

\* str.encode("utf-8") for code points below 2048
RECURSIVE Utf8Encode(_)
Utf8Encode(s) ==
    IF s = <<>> THEN <<>>
    ELSE LET c == Head(s) IN
         (IF c < 128 THEN <<c>> ELSE <<192 + (c \div 64), 128 + (c % 64)>>)
         \o Utf8Encode(Tail(s))

\* mutant: every byte decoded as one character
Utf8DecodeBytewise(b) == b

\* bytes.decode('utf-8'): the code points, or <<-1>> when the bytes are not UTF-8
RECURSIVE Utf8Decode(_)
Utf8Decode(b) ==
    IF b = <<>> THEN <<>>
    ELSE LET c == Head(b) IN
         IF c < 128
         THEN LET r == Utf8Decode(Tail(b)) IN IF r = <<-1>> THEN r ELSE <<c>> \o r
         ELSE IF c >= 194 /\ c < 224 /\ Len(b) >= 2 /\ b[2] >= 128 /\ b[2] < 192
         THEN LET r == Utf8Decode(Tail(Tail(b))) IN
              IF r = <<-1>> THEN r ELSE <<(c - 192) * 64 + (b[2] - 128)>> \o r
         ELSE <<-1>>

\* bytes.rstrip(b'\x00')
RECURSIVE RStripNul(_)
RStripNul(b) ==
    IF b = <<>> \/ b[Len(b)] # 0 THEN b ELSE RStripNul(SubSeq(b, 1, Len(b) - 1))

\* str(n) for n >= 0, as code points
RECURSIVE IntToStr(_)
IntToStr(n) ==
    IF n < 10 THEN <<48 + n>> ELSE IntToStr(n \div 10) \o <<48 + (n % 10)>>

\* int(s) for a string of decimal digits
RECURSIVE StrToInt(_)
StrToInt(s) ==
    IF s = <<>> THEN 0 ELSE StrToInt(SubSeq(s, 1, Len(s) - 1)) * 10 + (s[Len(s)] - 48)

\* str.isdigit(): not empty and all decimal digits
IsDigit(s) == s # <<>> /\ \A i \in 1..Len(s) : s[i] >= 48 /\ s[i] <= 57

\* index of the first "_" (code 95) of s, or 0
FirstSep(s) ==
    IF \E i \in 1..Len(s) : s[i] = 95
    THEN CHOOSE i \in 1..Len(s) : s[i] = 95 /\ \A j \in 1..(i - 1) : s[j] # 95
    ELSE 0

\* "{}_{}".format(config.get('meta_prefix'), flags)
MetaString(flags) == meta_prefix \o <<95>> \o IntToStr(flags)

\* the 48 bytes _write_sector writes for a payload that fits
PadTo48(data) == data \o Repeat(0, 48 - Len(data))

\* the 16 bytes _set_sector_key writes
Trailer(new_key) == new_key \o <<255, 7, 128, 105>> \o new_key

(***************************************************************************)
(* State                                                                   *)
(***************************************************************************)
VARIABLES
    CUSTOM_KEY,    \* config.get_hex('key'): a list of bytes, or None
    reader_lock,   \* "free", or the task that holds the lock
    card,          \* the card in the field: block number -> 16 bytes
    pc,            \* task -> where it stands
    loc,           \* task -> locals of card_session.wrapper
    fr,            \* task -> frame of the wrapped function
    ncalls,        \* administrative calls made so far
    ev,            \* what the last step did: a transport call, or the end
                   \* of a card session (observation)
    obs,           \* task -> what was observed of its current session
    relay,         \* level of pin 13: 0 or 1, -1 while it was never driven
    written,       \* what the last write_data that returned has written, as
                   \* long as no data block was written since (observation)
    addr           \* a sector and the block numbers computed for it

vars ==
    <<CUSTOM_KEY, reader_lock, card, pc, loc, fr, ncalls, ev, obs, relay,
      written, addr>>

\* exceptions of the RFIDException family (lines 92-114)
RFIDException ==
    {"NoCardDetected", "AccessDenied", "AuthenticationFailure",
     "ReadWriteFailure", "UnexpectedMetaData"}

EmptyDict ==
    [uid |-> <<>>, username |-> <<>>, collmex_id |-> <<>>, password |-> <<>>,
     flags |-> 0, meta_prefix |-> <<>>]
ResNone == [tag |-> "None", b |-> FALSE, d |-> EmptyDict]
ResBool(x) == [tag |-> "bool", b |-> x, d |-> EmptyDict]
ResDict(x) == [tag |-> "dict", b |-> FALSE, d |-> x]

NoEv ==
    [t |-> "none", call |-> "none", block |-> -1, key |-> None, ok |-> TRUE,
     exc |-> "", res |-> ResNone]
\* task t made the transport call `call`, which succeeded or not
Ev(t, call, block, key, ok) ==
    [t |-> t, call |-> call, block |-> block, key |-> key, ok |-> ok,
     exc |-> "", res |-> ResNone]
\* the card session of task t ended: it returned res (ok), or raised exc
Exit(t, ok, exc, res) ==
    [t |-> t, call |-> "exit", block |-> -1, key |-> None, ok |-> ok,
     exc |-> exc, res |-> res]

\* arguments of the wrapped functions; flags = -1 stands for flags=None
NoArgs ==
    [username |-> <<>>, collmex_id |-> <<>>, password |-> <<>>, flags |-> -1,
     new_key |-> None]

NoLoc ==
    [forced_uid |-> None, forced_key |-> None, key_candidates |-> <<>>,
     k |-> 0, itry |-> 0, uid |-> None, uid_str |-> FALSE, pend |-> "",
     res |-> ResNone]

NoFrame ==
    [func |-> "", npos |-> 0, args |-> NoArgs, sidx |-> 0, blk |-> 0,
     data |-> <<>>, vals |-> <<>>]

NoObs ==
    [touched |-> FALSE, cut |-> FALSE, mixed |-> FALSE, dirty |-> FALSE,
     nreq |-> 0, reqok |-> 0, nocard |-> FALSE, stops |-> 0, selects |-> 0,
     opKeys |-> <<>>, ends |-> <<>>, fault |-> FALSE, anticollFailed |-> FALSE,
     mismatch |-> FALSE, selectFailed |-> FALSE, rwFailed |-> 0,
     tooLarge |-> FALSE, keys0 |-> {}, calls |-> <<>>, meta |-> None,
     pre |-> <<>>]

\* nothing known to be written / the strings and flags write_data has written
NoWritten ==
    [set |-> FALSE, username |-> <<>>, collmex_id |-> <<>>, password |-> <<>>,
     flags |-> 0]
WrittenOf(args) ==
    [set |-> TRUE, username |-> args.username, collmex_id |-> args.collmex_id,
     password |-> args.password,
     flags |-> IF args.flags = -1 THEN FLAG_CASH_REGISTER ELSE args.flags]

NoAddr == [sector |-> 0, start |-> -1, trailer |-> -1]

(***************************************************************************)
(* The card (MIFARE Classic: the transport's view of it)                   *)
(***************************************************************************)
Blocks == 4..19
Blank == Repeat(0, 16)

\* a card whose four sectors carry `key`, with `meta` in the metadata sector
FreshCard(key, meta) ==
    [b \in Blocks |->
        IF b % 4 = 3 THEN Trailer(key)
        ELSE IF b \div 4 = SECTOR_META
        THEN SubSeq(PadTo48(Utf8Encode(meta)), 16 * (b % 4) + 1, 16 * (b % 4) + 16)
        ELSE Blank]

\* key A of the sector that holds block b
KeyOfBlock(c, b) == SubSeq(c[(b \div 4) * 4 + 3], 1, 6)

\* the keys the four sectors of the card carry
KeysOf(c) == { KeyOfBlock(c, b) : b \in Blocks }

\* the string the three data blocks of a sector of card c hold
SectorString(c, sector) ==
    Utf8Decode(RStripNul(c[4 * sector] \o c[4 * sector + 1] \o c[4 * sector + 2]))

\* reader.auth succeeds when the card answers and the key is the sector's key
AuthAccepts(c, b, key) == key # None /\ KeyOfBlock(c, b) = key

(***************************************************************************)
(* Calls the tasks make                                                    *)
(***************************************************************************)
Str48 == Repeat(97, 48)
Str49 == Repeat(97, 49)
\* "\u00e9" (two bytes in UTF-8), and "a\x00"
StrAccent == <<233>>
StrNulEnd == <<97, 0>>

\* write_data(username, "C", password, flags=flags)
WArgs(username, password, flags) ==
    [NoArgs EXCEPT !.username = username, !.collmex_id = <<67>>,
                   !.password = password, !.flags = flags]

\* the arguments of write_data: any username with an empty password and the
\* default flags, a password that is too long, and flags given
WriteArgs ==
    { WArgs(u, <<>>, -1) : u \in {<<97>>, Str48, Str49, StrAccent, StrNulEnd} }
    \cup { WArgs(<<97>>, Str49, -1) }
    \cup { WArgs(<<97>>, <<>>, f) : f \in {0, 12} }

\* _boot.py, lines 107 and 145: the new key is CUSTOM_KEY or DEFAULT_KEY
RekeyArgs == { [NoArgs EXCEPT !.new_key = nk] : nk \in {DEFAULT_KEY, CUSTOM_KEY} }

ForcedKeys == {None, DEFAULT_KEY, KeyB, KeyShort}
ForcedUids == {None, UidCard, UidOther}

\* number of leading positional parameters of each wrapped function
Arity(func) ==
    CASE func = "write_data" -> 3
      [] func = "set_key_for_all_sectors" -> 1
      [] OTHER -> 0

ACall(func, fk, fu, a) ==
    [func |-> func, npos |-> Arity(func), forced_key |-> fk, forced_uid |-> fu,
     args |-> a]

\* the calls of func: any key with the card's UID, any UID with no key
\* forced, and any arguments with the card's UID and no key forced
CallsOf(func, argset) ==
    { ACall(func, fk, UidCard, CHOOSE a \in argset : TRUE) : fk \in ForcedKeys }
    \cup { ACall(func, None, fu, CHOOSE a \in argset : TRUE) : fu \in ForcedUids }
    \cup { ACall(func, None, UidCard, a) : a \in argset }

\* what the administrative handlers may call
AdminCalls ==
    CallsOf("test_auth", {NoArgs}) \cup CallsOf("read_data", {NoArgs})
    \cup CallsOf("write_data", WriteArgs)
    \cup CallsOf("set_key_for_all_sectors", RekeyArgs)

\* the calls of the administrative tasks when all tasks run
ConcurrentCalls ==
    { ACall("test_auth", DEFAULT_KEY, UidCard, NoArgs),
      ACall("read_data", None, None, NoArgs),
      ACall("read_data", KeyShort, UidCard, NoArgs),
      ACall("read_data", None, UidOther, NoArgs),
      ACall("write_data", None, UidCard,
            [NoArgs EXCEPT !.username = <<97>>, !.collmex_id = <<67>>]),
      ACall("set_key_for_all_sectors", None, UidCard,
            [NoArgs EXCEPT !.new_key = KeyB]) }

\* the calls of the administrative tasks under fair scheduling: a read, a
\* write and a change of key
FairCalls ==
    { ACall("read_data", None, None, NoArgs),
      ACall("write_data", None, UidCard, WArgs(<<97>>, <<>>, -1)),
      ACall("set_key_for_all_sectors", None, UidCard,
            [NoArgs EXCEPT !.new_key = KeyB]) }

\* _rfid_reading, line 524: read_data(DEFAULT_KEY), the key given by position
PollerArgs ==
    [func |-> "read_data", npos |-> 1, forced_key |-> None, forced_uid |-> None,
     args |-> NoArgs]

(***************************************************************************)
(* Initial state                                                           *)
(***************************************************************************)
\* metadata that is not "<meta_prefix>_<digits>": "X_1", "SL_x", "SL_", "SL1"
ForeignMeta ==
    { <<88, 95, 49>>, <<83, 76, 95, 120>>, <<83, 76, 95>>, <<83, 76, 49>> }

\* the configuration and the card in the field: any configured key with a
\* provisioned or a blank card under either key, and cards with foreign
\* metadata
Init ==
    /\ \/ /\ CUSTOM_KEY \in {KeyB, None, KeyShort}
          /\ card \in { FreshCard(key, meta) :
                          key \in {DEFAULT_KEY, KeyB},
                          meta \in {MetaString(1), <<>>} }
       \/ /\ CUSTOM_KEY = KeyB
          /\ card \in { FreshCard(DEFAULT_KEY, meta) : meta \in ForeignMeta }
    /\ reader_lock = "free"
    /\ pc = [t \in Tasks |-> IF t = Poller THEN "sleep" ELSE "idle"]
    /\ loc = [t \in Tasks |-> NoLoc]
    /\ fr = [t \in Tasks |-> NoFrame]
    /\ ncalls = 0
    /\ ev = NoEv
    /\ obs = [t \in Tasks |-> NoObs]
    /\ relay = -1
    /\ written = NoWritten
    /\ addr = NoAddr

(***************************************************************************)
(* Observation of transport calls                                          *)
(***************************************************************************)
\* task t makes the transport call `call`; o is t's record after the step
Observe(t, call, o) ==
    [u \in Tasks |->
        IF u = t
        THEN [o EXCEPT !.touched = TRUE, !.mixed = @ \/ o.cut,
                       !.dirty = (call # "stop_crypto1")]
        ELSE [obs[u] EXCEPT !.cut = @ \/ obs[u].touched]]

(***************************************************************************)
(* card_session.wrapper (lines 152-217)                                    *)
(***************************************************************************)
\* mutant: the session is entered without waiting for the lock
LockIgnored(t) == TRUE

\* line 157: `async with reader_lock` lets the task in when no task holds it
LockAvailable(t) == reader_lock = "free"

\* mutant: the configured key is tried before the default key
KeyCandidatesCustomFirst(forced_key) ==
    IF forced_key # None THEN <<forced_key>> ELSE <<CUSTOM_KEY, DEFAULT_KEY>>

\* lines 159-162
KeyCandidates(forced_key) ==
    IF forced_key # None THEN <<forced_key>> ELSE <<DEFAULT_KEY, CUSTOM_KEY>>

\* mutant: one request more
LastTryOneMore(itry) == itry = 3

\* line 167: range(3): itry is the last try
LastTry(itry) == itry = 2

\* mutants: the handler catches less, or more
CaughtReadWriteOnly(exc) == exc = "ReadWriteFailure"
CaughtAuthOnly(exc) == exc = "AuthenticationFailure"
CaughtAnyRFID(exc) == exc \in RFIDException

\* line 210: the exceptions the handler catches to go on with the next key
Caught(exc) == exc \in {"AuthenticationFailure", "ReadWriteFailure"}

\* an exception raised in the try block (lines 165-208): a caught one runs
\* the handler, whose print (line 211) reads uid_str, set at line 198 only
ExceptHandler(l, exc) ==
    [l EXCEPT !.pend = IF Caught(exc)
                       THEN (IF l.uid_str THEN "next" ELSE "NameError")
                       ELSE exc]

\* line 208: return res
Return(l, r) == [l EXCEPT !.pend = "return", !.res = r]

\* line 195: the detected UID is not the one the caller asked for
\* mutant: the UID of the card is not compared with the required one
UidMismatchIgnored(forced_uid, uid) == FALSE
UidMismatch(forced_uid, uid) == forced_uid # None /\ uid # forced_uid

ObsEnd(o, how) == [o EXCEPT !.ends = Append(@, how)]

\* one step of task t that makes the transport call e
Step(t, e, l, f, o, nxt, c) ==
    /\ ev' = e
    /\ loc' = [loc EXCEPT ![t] = l]
    /\ fr' = [fr EXCEPT ![t] = f]
    /\ obs' = Observe(t, e.call, o)
    /\ pc' = [pc EXCEPT ![t] = nxt]
    /\ card' = c
    /\ written' = IF l.pend = "return" /\ f.func = "write_data"
                  THEN WrittenOf(f.args)
                  ELSE IF c # card /\ e.block % 4 # 3 THEN NoWritten
                  ELSE written
    /\ UNCHANGED <<CUSTOM_KEY, reader_lock, ncalls, relay, addr>>

\* an administrative handler calls a card-session function (_boot.py)
AdminCall(t, max) ==
    /\ t \in Admins
    /\ pc[t] = "idle"
    /\ ncalls < max
    /\ ncalls' = ncalls + 1
    /\ pc' = [pc EXCEPT ![t] = "lock"]
    /\ ev' = NoEv
    /\ UNCHANGED <<CUSTOM_KEY, reader_lock, card, loc, fr, obs, relay, written,
                   addr>>

\* the poller resumes after a sleep: after the 250 ms of line 534 it calls
\* read_data (line 524); after the 300 ms of open_cash_register (line 511)
\* it drives the relay high (line 512) and sleeps the 250 ms
PollerPoll ==
    /\ pc[Poller] \in {"sleep", "pulse"}
    /\ pc' = [pc EXCEPT ![Poller] = IF @ = "pulse" THEN "sleep" ELSE "lock"]
    /\ relay' = IF pc[Poller] = "pulse" THEN 1 ELSE relay
    /\ ev' = NoEv
    /\ UNCHANGED <<CUSTOM_KEY, reader_lock, card, loc, fr, ncalls, obs, written,
                   addr>>

\* lines 154-162: the arguments are taken, the lock is acquired and the key
\* candidates are normalized; a key of the wrong length raises ValueError
Acquire(t, calls) ==
    /\ pc[t] = "lock"
    /\ LockAvailable(t)
    /\ \E c \in calls :
         LET cands == KeyCandidates(c.forced_key)
             bad == \E i \in 1..Len(cands) : NormalizeKeyRaises(cands[i])
             l0 == [NoLoc EXCEPT !.forced_uid = c.forced_uid,
                                 !.forced_key = c.forced_key]
         IN /\ loc' = [loc EXCEPT ![t] =
                         IF bad THEN [l0 EXCEPT !.pend = "ValueError"]
                         ELSE [l0 EXCEPT !.key_candidates = cands, !.k = 1]]
            /\ fr' = [fr EXCEPT ![t] =
                         [NoFrame EXCEPT !.func = c.func, !.npos = c.npos,
                                         !.args = c.args]]
            /\ pc' = [pc EXCEPT ![t] = IF bad THEN "release" ELSE "request"]
    /\ reader_lock' = t
    /\ ev' = NoEv
    /\ obs' = [obs EXCEPT ![t] = [NoObs EXCEPT !.keys0 = KeysOf(card)]]
    /\ UNCHANGED <<CUSTOM_KEY, card, ncalls, relay, written, addr>>

\* lines 167-172: one reader.request
Request(t) ==
    /\ pc[t] = "request"
    /\ \E ok \in BOOLEAN :
         LET l == loc[t]
             o == [obs[t] EXCEPT !.nreq = @ + 1,
                                 !.reqok = @ + (IF ok THEN 1 ELSE 0),
                                 !.fault = @ \/ ~ok,
                                 !.pre = Append(@, <<"request", ok>>)]
             e == Ev(t, "request", -1, None, ok)
         IN IF ok
            THEN Step(t, e, [l EXCEPT !.itry = 0], fr[t], o, "anticoll", card)
            ELSE IF ~LastTry(l.itry)
            THEN Step(t, e, [l EXCEPT !.itry = @ + 1], fr[t], o, "request", card)
            ELSE Step(t, e, ExceptHandler([l EXCEPT !.itry = 0], "NoCardDetected"),
                      fr[t], ObsEnd([o EXCEPT !.nocard = TRUE], "NoCardDetected"),
                      "finally", card)

\* lines 191-198: reader.anticoll and the check of the UID
Anticoll(t) ==
    /\ pc[t] = "anticoll"
    /\ \E ok \in BOOLEAN :
         LET l == loc[t]
             o == [obs[t] EXCEPT !.fault = @ \/ ~ok,
                                 !.pre = Append(@, <<"anticoll", ok>>)]
             e == Ev(t, "anticoll", -1, None, ok)
             lu == [l EXCEPT !.uid = UidCard]
         IN IF ~ok
            THEN Step(t, e, ExceptHandler(l, "ReadWriteFailure"), fr[t],
                      ObsEnd([o EXCEPT !.anticollFailed = TRUE], "ReadWriteFailure"),
                      "finally", card)
            ELSE IF UidMismatch(l.forced_uid, UidCard)
            THEN Step(t, e, ExceptHandler(lu, "NoCardDetected"), fr[t],
                      ObsEnd([o EXCEPT !.mismatch = TRUE], "NoCardDetected"),
                      "finally", card)
            ELSE Step(t, e, [lu EXCEPT !.uid_str = TRUE], fr[t], o, "select", card)

\* line 205: func(*args, uid=uid, key=ikey, **kwargs) binds its arguments
\* when the positional ones are exactly the leading parameters of func
BindsArguments(f) == f.npos = Arity(f.func)

\* lines 201-205: reader.select_tag, then the call of the wrapped function
SelectTag(t) ==
    /\ pc[t] = "select"
    /\ \E ok \in BOOLEAN :
         LET l == loc[t]
             f == fr[t]
             o == [obs[t] EXCEPT !.fault = @ \/ ~ok,
                                 !.selects = @ + (IF ok THEN 1 ELSE 0),
                                 !.pre = Append(@, <<"select_tag", ok>>)]
             oc == [o EXCEPT !.opKeys = Append(@, l.key_candidates[l.k])]
             e == Ev(t, "select_tag", -1, None, ok)
         IN IF ~ok
            THEN Step(t, e, ExceptHandler(l, "AccessDenied"), f,
                      ObsEnd([o EXCEPT !.selectFailed = TRUE], "AccessDenied"),
                      "finally", card)
            ELSE IF ~BindsArguments(f)
            THEN Step(t, e, ExceptHandler(l, "TypeError"), f,
                      ObsEnd(oc, "TypeError"), "finally", card)
            ELSE Step(t, e, l,
                      [f EXCEPT !.sidx = 1, !.blk = 0, !.data = <<>>, !.vals = <<>>],
                      oc, "auth", card)

(***************************************************************************)
(* The wrapped functions (lines 236-505), one transport call per step      *)
(***************************************************************************)
\* the frame of a function that has returned or raised
Rewind(f) == [f EXCEPT !.sidx = 0, !.blk = 0, !.data = <<>>, !.vals = <<>>]

\* the wrapped function raises exc / returns r, after the transport call e
OpRaise(t, e, exc, o, c) ==
    Step(t, e, ExceptHandler(loc[t], exc), Rewind(fr[t]), ObsEnd(o, exc),
         "finally", c)
OpReturn(t, e, r, o, c) ==
    Step(t, e, Return(loc[t], r), Rewind(fr[t]), ObsEnd(o, "return"),
         "finally", c)

\* mutants: every sector operation authenticates on the start block, or on
\* the trailer block
AuthBlockStart(func, sector) == get_start_block(sector)
AuthBlockTrailer(func, sector) == get_sector_trailer(sector)

\* sector_session(is_trailer_block=True) wraps _set_sector_key only
AuthBlock(func, sector) ==
    IF func = "set_key_for_all_sectors"
    THEN get_sector_trailer(sector) ELSE get_start_block(sector)

\* write_data, lines 409-417: the string written to each sector
Payload(args, sector) ==
    CASE sector = SECTOR_META ->
            MetaString(IF args.flags = -1 THEN FLAG_CASH_REGISTER ELSE args.flags)
      [] sector = SECTOR_USERNAME -> args.username
      [] sector = SECTOR_COLLMEX_ID -> args.collmex_id
      [] OTHER -> args.password

\* _write_sector, line 301
TooLarge(data) == Len(data) > 48

\* next sector of the function, or its return with r
NextSector(t, e, r, o, c) ==
    IF fr[t].sidx < Len(SECTORS)
    THEN Step(t, e, loc[t],
              [fr[t] EXCEPT !.sidx = @ + 1, !.blk = 0, !.data = <<>>],
              o, "auth", c)
    ELSE OpReturn(t, e, r, o, c)

\* reader.auth of sector_session (line 256) and of test_auth (line 356),
\* and what the function does until its next transport call.  Given None
\* for a key (a key candidate _normalize_key lets through) the transport
\* either answers an error or raises TypeError.
Auth(t) ==
    /\ pc[t] = "auth"
    /\ \E answer \in BOOLEAN, raises \in BOOLEAN :
         LET l == loc[t]
             f == fr[t]
             key == l.key_candidates[l.k]
             sector == SECTORS[f.sidx]
             block == AuthBlock(f.func, sector)
             ok == answer /\ AuthAccepts(card, block, key)
             o == [obs[t] EXCEPT !.fault = @ \/ ~answer,
                                 !.calls = Append(@, <<"auth", block, ok>>)]
             e == Ev(t, "auth", block, key, ok)
         IN CASE key = None /\ raises -> OpRaise(t, e, "TypeError", o, card)
              [] f.func = "test_auth" ->
                   IF ok THEN NextSector(t, e, ResBool(TRUE), o, card)
                   ELSE OpReturn(t, e, ResBool(FALSE), o, card)
              [] f.func = "write_data" ->
                   LET data == Utf8Encode(Payload(f.args, sector)) IN
                   IF ~ok THEN OpRaise(t, e, "AuthenticationFailure", o, card)
                   ELSE IF TooLarge(data)
                   THEN OpRaise(t, e, "ReadWriteFailure",
                                [o EXCEPT !.tooLarge = TRUE], card)
                   ELSE Step(t, e, l, [f EXCEPT !.data = PadTo48(data), !.blk = 0],
                             o, "write", card)
              [] f.func = "read_data" ->
                   IF ~ok THEN OpRaise(t, e, "AuthenticationFailure", o, card)
                   ELSE Step(t, e, l, [f EXCEPT !.data = <<>>, !.blk = 0],
                             o, "read", card)
              [] OTHER ->
                   IF ~ok THEN OpRaise(t, e, "AuthenticationFailure", o, card)
                   ELSE IF NormalizeKeyRaises(f.args.new_key)
                   THEN OpRaise(t, e, "ValueError", o, card)
                   ELSE IF f.args.new_key = None
                   THEN OpRaise(t, e, "TypeError", o, card)
                   ELSE Step(t, e, l, f, o, "trailer", card)

\* _write_sector, lines 309-313: one reader.write
WriteBlock(t) ==
    /\ pc[t] = "write"
    /\ \E ok \in BOOLEAN :
         LET f == fr[t]
             block == get_start_block(SECTORS[f.sidx]) + f.blk
             chunk == SubSeq(f.data, 16 * f.blk + 1, 16 * f.blk + 16)
             o == [obs[t] EXCEPT !.fault = @ \/ ~ok,
                                 !.calls = Append(@, <<"write", block, ok>>)]
             e == Ev(t, "write", block, None, ok)
             c == [card EXCEPT ![block] = chunk]
         IN IF ~ok
            THEN OpRaise(t, e, "ReadWriteFailure",
                         [o EXCEPT !.rwFailed = loc[t].k], card)
            ELSE IF f.blk < 2
            THEN Step(t, e, loc[t], [f EXCEPT !.blk = @ + 1], o, "write", c)
            ELSE NextSector(t, e, ResBool(TRUE), o, c)

\* mutant: the text after the "_" is not looked at
MetaValidAnySuffix(s) ==
    LET i == FirstSep(s) IN i # 0 /\ SubSeq(s, 1, i - 1) = meta_prefix

\* read_data, lines 441-449: the metadata is "<meta_prefix>_<digits>"
MetaValid(s) ==
    LET i == FirstSep(s) IN
    /\ i # 0
    /\ SubSeq(s, 1, i - 1) = meta_prefix
    /\ IsDigit(SubSeq(s, i + 1, Len(s)))

\* read_data, lines 452-465
Record(uid, vals) ==
    LET i == FirstSep(vals[1]) IN
    [uid |-> uid, username |-> vals[2], collmex_id |-> vals[3],
     password |-> vals[4],
     flags |-> StrToInt(SubSeq(vals[1], i + 1, Len(vals[1]))),
     meta_prefix |-> SubSeq(vals[1], 1, i - 1)]

\* _read_sector, lines 328-338: one reader.read; after the third block the
\* sector's string, and what read_data does with it
ReadBlock(t) ==
    /\ pc[t] = "read"
    /\ \E ok \in BOOLEAN :
         LET f == fr[t]
             block == get_start_block(SECTORS[f.sidx]) + f.blk
             data == f.data \o card[block]
             str == Utf8Decode(RStripNul(data))
             o == [obs[t] EXCEPT
                     !.fault = @ \/ ~ok,
                     !.calls = Append(@, <<"read", block, ok>>),
                     !.meta = IF ok /\ f.blk = 2 /\ SECTORS[f.sidx] = SECTOR_META
                              THEN str ELSE @]
             e == Ev(t, "read", block, None, ok)
             vals == Append(f.vals, str)
         IN IF ~ok
            THEN OpRaise(t, e, "ReadWriteFailure",
                         [o EXCEPT !.rwFailed = loc[t].k], card)
            ELSE IF f.blk < 2
            THEN Step(t, e, loc[t], [f EXCEPT !.blk = @ + 1, !.data = data],
                      o, "read", card)
            ELSE IF str = <<-1>>
            THEN OpRaise(t, e, "UnicodeError", o, card)
            ELSE IF SECTORS[f.sidx] = SECTOR_META /\ ~MetaValid(str)
            THEN OpRaise(t, e, "UnexpectedMetaData", o, card)
            ELSE IF f.sidx < Len(SECTORS)
            THEN Step(t, e, loc[t],
                      [f EXCEPT !.sidx = @ + 1, !.blk = 0, !.data = <<>>,
                                !.vals = vals],
                      o, "auth", card)
            ELSE OpReturn(t, e, ResDict(Record(loc[t].uid, vals)), o, card)

\* _set_sector_key, lines 484-487: the write of the trailer block
WriteTrailer(t) ==
    /\ pc[t] = "trailer"
    /\ \E ok \in BOOLEAN :
         LET f == fr[t]
             block == get_sector_trailer(SECTORS[f.sidx])
             o == [obs[t] EXCEPT !.fault = @ \/ ~ok,
                                 !.calls = Append(@, <<"write", block, ok>>)]
             e == Ev(t, "write", block, None, ok)
             c == [card EXCEPT ![block] = Trailer(f.args.new_key)]
         IN IF ~ok
            THEN OpRaise(t, e, "ReadWriteFailure",
                         [o EXCEPT !.rwFailed = loc[t].k], card)
            ELSE NextSector(t, e, ResNone, o, c)

(***************************************************************************)
(* End of an attempt and of the session                                    *)
(***************************************************************************)
\* mutant: no teardown after an attempt that returned
TeardownOnErrorOnly(t, pend) ==
    IF pend = "return" THEN NoEv ELSE Ev(t, "stop_crypto1", -1, None, TRUE)

\* lines 213-215: the finally clause calls reader.stop_crypto1, whatever
\* the attempt ended with
Teardown(t, pend) == Ev(t, "stop_crypto1", -1, None, TRUE)

\* lines 213-217: stop_crypto1, then the return, the exception, the next
\* key candidate, or the failure after the last one
Finally(t) ==
    /\ pc[t] = "finally"
    /\ LET l == loc[t]
           e == Teardown(t, l.pend)
           o == [obs[t] EXCEPT
                   !.stops = @ + (IF e.call = "stop_crypto1" THEN 1 ELSE 0)]
       IN IF l.pend # "next"
          THEN Step(t, e, l, fr[t], o, "release", card)
          ELSE IF l.k < Len(l.key_candidates)
          THEN Step(t, e, [l EXCEPT !.k = @ + 1, !.pend = ""], fr[t],
                    [o EXCEPT !.nreq = 0, !.reqok = 0, !.calls = <<>>,
                              !.meta = None, !.pre = <<>>],
                    "request", card)
          ELSE Step(t, e,
                    [l EXCEPT !.pend = IF l.uid_str THEN "AuthenticationFailure"
                                       ELSE "NameError"],
                    fr[t], o, "release", card)

\* mutant: the poller keeps the lock
LockKeptByPoller(t, l) == IF t = Poller THEN t ELSE "free"

\* mutant: the lock is released on return only
LockKeptOnError(t, l) == IF l.pend = "return" THEN "free" ELSE t

\* the lock after the `async with` block (line 157) is left, however it is
LockAfterExit(t, l) == "free"

\* line 525: rfid_data["flags"] & FLAG_CASH_REGISTER
HasAccess(res) == (res.d.flags \div FLAG_CASH_REGISTER) % 2 = 1

\* _rfid_reading, lines 525-534: after a record with the cash register flag
\* the relay is pulsed; after another record or an RFIDException the task
\* sleeps; any other exception ends it
AfterPoll(pend, res) ==
    IF pend = "return" THEN (IF HasAccess(res) THEN "pulse" ELSE "sleep")
    ELSE IF pend \in RFIDException THEN "sleep" ELSE "dead"

\* the session's result or exception reaches the caller; the poller, given
\* a record with the flag, drives the relay low (line 510) and sleeps
Release(t) ==
    LET l == loc[t] IN
    /\ pc[t] = "release"
    /\ reader_lock' = LockAfterExit(t, l)
    /\ ev' = IF l.pend = "return" THEN Exit(t, TRUE, "", l.res)
             ELSE Exit(t, FALSE, l.pend, ResNone)
    /\ pc' = [pc EXCEPT ![t] =
                 IF t = Poller THEN AfterPoll(l.pend, l.res) ELSE "idle"]
    /\ relay' = IF t = Poller /\ AfterPoll(l.pend, l.res) = "pulse"
                THEN 0 ELSE relay
    /\ loc' = [loc EXCEPT ![t] = NoLoc]
    /\ fr' = [fr EXCEPT ![t] = NoFrame]
    /\ obs' = [obs EXCEPT ![t] = NoObs]
    /\ UNCHANGED <<CUSTOM_KEY, card, ncalls, written, addr>>

SessionStep(t) ==
    \/ Request(t)
    \/ Anticoll(t)
    \/ SelectTag(t)
    \/ Auth(t)
    \/ WriteBlock(t)
    \/ ReadBlock(t)
    \/ WriteTrailer(t)
    \/ Finally(t)
    \/ Release(t)

\* the poller and two administrative handlers
Next ==
    \/ \E t \in Admins : AdminCall(t, MaxConcurrentCalls)
    \/ PollerPoll
    \/ \E t \in Admins : Acquire(t, ConcurrentCalls)
    \/ Acquire(Poller, {PollerArgs})
    \/ \E t \in Tasks : SessionStep(t)

Spec == Init /\ [][Next]_vars

\* scheduling: the event loop runs every task that can run (weak fairness of
\* the steps that wait for nothing), and asyncio.Lock hands the lock to its
\* waiters in turn, so that a waiting task is not passed over for ever
\* (strong fairness of the acquisition)
Fairness ==
    /\ \A t \in Tasks : WF_vars(SessionStep(t))
    /\ WF_vars(PollerPoll)
    /\ SF_vars(Acquire(Poller, {PollerArgs}))
    /\ SF_vars(Acquire("admin1", FairCalls))

\* the poller and one administrative handler under fair scheduling, with a
\* 6-byte key configured and a provisioned card under the default key
InitFair ==
    /\ Init
    /\ CUSTOM_KEY = KeyB
    /\ card = FreshCard(DEFAULT_KEY, MetaString(FLAG_CASH_REGISTER))

NextFair ==
    \/ AdminCall("admin1", MaxConcurrentCalls)
    \/ PollerPoll
    \/ Acquire("admin1", FairCalls)
    \/ Acquire(Poller, {PollerArgs})
    \/ \E t \in Tasks : SessionStep(t)

SpecFair == InitFair /\ [][NextFair]_vars /\ Fairness

\* one administrative handler alone
NextSession ==
    \/ AdminCall("admin1", MaxCalls)
    \/ Acquire("admin1", AdminCalls)
    \/ SessionStep("admin1")

SpecSession == Init /\ [][NextSession]_vars

(***************************************************************************)
(* Sector addressing: the two block-number functions applied to a sector   *)
(***************************************************************************)
\* the sectors of a MIFARE Classic 4K card
AddrSectors == 0..39

InitAddr ==
    /\ CUSTOM_KEY = KeyB
    /\ reader_lock = "free"
    /\ card = FreshCard(DEFAULT_KEY, MetaString(FLAG_CASH_REGISTER))
    /\ pc = [t \in Tasks |-> IF t = Poller THEN "sleep" ELSE "idle"]
    /\ loc = [t \in Tasks |-> NoLoc]
    /\ fr = [t \in Tasks |-> NoFrame]
    /\ ncalls = 0
    /\ ev = NoEv
    /\ obs = [t \in Tasks |-> NoObs]
    /\ relay = -1
    /\ written = NoWritten
    /\ addr \in { [NoAddr EXCEPT !.sector = s] : s \in AddrSectors }

GetStartBlock ==
    /\ addr.start = -1
    /\ addr' = [addr EXCEPT !.start = get_start_block(addr.sector)]
    /\ UNCHANGED <<CUSTOM_KEY, reader_lock, card, pc, loc, fr, ncalls, ev, obs,
                   relay, written>>

GetSectorTrailer ==
    /\ addr.trailer = -1
    /\ addr' = [addr EXCEPT !.trailer = get_sector_trailer(addr.sector)]
    /\ UNCHANGED <<CUSTOM_KEY, reader_lock, card, pc, loc, fr, ncalls, ev, obs,
                   relay, written>>

NextAddr == GetStartBlock \/ GetSectorTrailer

SpecAddr == InitAddr /\ [][NextAddr]_vars

(***************************************************************************)
(* Properties                                                              *)
(***************************************************************************)
SessionPcs ==
    {"request", "anticoll", "select", "auth", "write", "read", "trailer",
     "finally", "release"}
InSession(t) == pc[t] \in SessionPcs
\* the session of t is over: loc[t].pend is what its caller gets
Ended(t) == pc[t] = "release"
\* the last step was a transport call
IsCall(e) == e.call \notin {"none", "exit"}
Last(q) == q[Len(q)]

\* C1: the transport calls of two concurrent card sessions never interleave:
\* no session makes a transport call after another session made one in
\* between its own calls, and every transport call is made by the task that
\* holds the reader lock.
C1_NoInterleaving ==
    /\ \A t \in Tasks : ~obs[t].mixed
    /\ IsCall(ev) => reader_lock = ev.t

\* a session is on the transport, inside the wrapped function, while
\* another task asks for a session
C1_Witness ==
    \E t \in Tasks, u \in Tasks :
        /\ t # u
        /\ obs[t].touched
        /\ pc[t] \in {"write", "read", "trailer"}
        /\ pc[u] = "lock"

\* C2: the reader lock is released on every exit path of a card session:
\* right after a session has ended, by a return or by any exception, the
\* lock is free, and a task that is in no session never holds it.
C2_LockReleased ==
    /\ ev.call = "exit" => reader_lock = "free"
    /\ \A t \in Tasks : reader_lock = t => InSession(t)

\* a session has just ended with an exception while another task waits
\* for the lock
C2_Witness ==
    /\ ev.call = "exit"
    /\ ev.exc \in {"NoCardDetected", "NameError", "AccessDenied",
                   "AuthenticationFailure", "ValueError", "UnexpectedMetaData"}
    /\ \E u \in Tasks : u # ev.t /\ pc[u] = "lock"

\* C3: stop_crypto1 follows every key-candidate attempt: when an attempt
\* starts and when the session releases the lock, the last transport call
\* of the session, if any, was stop_crypto1, and stop_crypto1 has been
\* called once for each attempt that is over.
C3_Teardown ==
    \A t \in Tasks :
        /\ (pc[t] = "request" /\ loc[t].itry = 0) => ~obs[t].dirty
        /\ ~InSession(t) \/ Ended(t) => ~obs[t].dirty
        /\ InSession(t) /\ ~Ended(t) => obs[t].stops = loc[t].k - 1
        /\ Ended(t) => obs[t].stops = loc[t].k

\* a session ends with the return of its second attempt, after two teardowns
C3_Witness ==
    \E t \in Tasks :
        Ended(t) /\ obs[t].stops = 2 /\ loc[t].pend = "return"

\* the card stayed in the field, its four sectors carried the configured
\* key and nothing else when the session of t started, and t forced no key
\* and no other card's UID
CustomOnlyCard(t) ==
    /\ loc[t].forced_key = None
    /\ loc[t].forced_uid \in {None, UidCard}
    /\ CUSTOM_KEY # None /\ Len(CUSTOM_KEY) = 6 /\ CUSTOM_KEY # DEFAULT_KEY
    /\ obs[t].keys0 = {CUSTOM_KEY}
    /\ ~obs[t].fault

\* the session of t went through the fallback: the function was called with
\* DEFAULT_KEY, then, after a teardown, a new detection and a new selection
\* of the tag, with CUSTOM_KEY, and the session ends as that call ended
FellBack(t) ==
    /\ obs[t].opKeys = <<DEFAULT_KEY, CUSTOM_KEY>>
    /\ obs[t].stops = 2
    /\ obs[t].selects = 2
    /\ Len(obs[t].ends) = 2
    /\ obs[t].ends[2] = "return" <=> loc[t].pend = "return"
    /\ obs[t].ends[2] \in {"return", "UnexpectedMetaData", "ReadWriteFailure",
                           "ValueError", "TypeError"}
    /\ obs[t].ends[2] = "ReadWriteFailure" => obs[t].tooLarge

C5_KeyExhaustion ==
    \A t \in Tasks :
        LET cands == loc[t].key_candidates IN
        /\ InSession(t) /\ loc[t].k >= 1 =>
              /\ cands = IF loc[t].forced_key # None
                         THEN <<loc[t].forced_key>>
                         ELSE <<DEFAULT_KEY, CUSTOM_KEY>>
              /\ loc[t].k <= Len(cands)
              /\ Len(obs[t].opKeys) <= loc[t].k
              /\ \A i \in 1..Len(obs[t].opKeys) :
                    /\ obs[t].opKeys[i] = cands[i]
                    /\ i = Len(obs[t].opKeys) \/ Len(obs[t].ends) >= i
        /\ ( /\ Ended(t) /\ loc[t].k >= 1
             /\ Len(obs[t].ends) = Len(cands)
             /\ \A i \in 1..Len(cands) : obs[t].ends[i] = "AuthenticationFailure" )
           => /\ loc[t].pend = "AuthenticationFailure"
              /\ obs[t].opKeys = cands

\* both candidates were tried and both attempts ended in
\* AuthenticationFailure
C5_Witness ==
    \E t \in Tasks :
        /\ Ended(t)
        /\ loc[t].forced_key = None
        /\ obs[t].ends = <<"AuthenticationFailure", "AuthenticationFailure">>

\* C6: at most 3 requests are made per attempt and none after the first
\* that succeeds; when all 3 fail the session fails with NoCardDetected:
\* no anticoll, select_tag or operation call and no further attempt follows.
C6_Detection ==
    \A t \in Tasks :
        /\ obs[t].nreq <= 3
        /\ obs[t].reqok <= 1
        /\ pc[t] = "request" => obs[t].reqok = 0 /\ obs[t].nreq = loc[t].itry
        /\ pc[t] \in {"anticoll", "select", "auth", "write", "read", "trailer"}
              => obs[t].reqok = 1 /\ ~obs[t].nocard
        /\ obs[t].nocard =>
              /\ obs[t].nreq = 3 /\ obs[t].reqok = 0
              /\ pc[t] \in {"finally", "release"}
              /\ loc[t].pend = "NoCardDetected"
              /\ Len(obs[t].ends) = loc[t].k
              /\ Len(obs[t].opKeys) = loc[t].k - 1
              /\ obs[t].selects = loc[t].k - 1
        /\ (IsCall(ev) /\ ev.t = t /\ obs[t].nocard) => ev.call \in {"request", "stop_crypto1"}

\* the three requests of the first attempt failed, with a second key
\* candidate left untried
C6_Witness ==
    \E t \in Tasks :
        /\ Ended(t) /\ obs[t].nocard
        /\ loc[t].k = 1 /\ Len(loc[t].key_candidates) = 2

\* C7 as stated: a session in which anticoll did not return a UID fails with
\* ReadWriteFailure.
C7_AnticollReadWriteFailure ==
    \A t \in Tasks :
        Ended(t) /\ obs[t].anticollFailed => loc[t].pend = "ReadWriteFailure"

\* C8: a failure other than AuthenticationFailure and ReadWriteFailure ends
\* the session with that failure and no further key candidate is tried: a
\* UID other than the required one gives NoCardDetected, a failed select_tag
\* AccessDenied, both without a call of the operation in that attempt, and
\* UnexpectedMetaData raised under the first key is not retried.
C8_OtherFailuresPropagate ==
    \A t \in Tasks :
        LET ends == obs[t].ends IN
        /\ \A i \in 1..Len(ends) :
              ends[i] \notin {"AuthenticationFailure", "ReadWriteFailure"} =>
                  /\ i = Len(ends) /\ i = loc[t].k
                  /\ pc[t] \in {"finally", "release"}
                  /\ loc[t].pend = ends[i]
        /\ obs[t].mismatch =>
              /\ Last(ends) = "NoCardDetected"
              /\ Len(obs[t].opKeys) = loc[t].k - 1
              /\ obs[t].selects = loc[t].k - 1
        /\ obs[t].selectFailed =>
              /\ Last(ends) = "AccessDenied"
              /\ Len(obs[t].opKeys) = loc[t].k - 1

\* UnexpectedMetaData under the first of two key candidates ends the session
C8_Witness ==
    \E t \in Tasks :
        /\ Ended(t)
        /\ Len(loc[t].key_candidates) = 2
        /\ obs[t].ends = <<"UnexpectedMetaData">>
        /\ loc[t].pend = "UnexpectedMetaData"

\* C9 as stated: a session in which a block read or write failed at the
\* transport ends with ReadWriteFailure.
C9_ReadWriteFailureSurfaces ==
    \A t \in Tasks :
        Ended(t) /\ obs[t].rwFailed # 0 => loc[t].pend = "ReadWriteFailure"

\* C9, amended: after a block read or write failed at the transport the
\* attempt makes no further transport call but stop_crypto1; the session
\* never ends with ReadWriteFailure: it goes on with the next key candidate,
\* and ends with AuthenticationFailure when the failure happened under the
\* last one.
C9_ReadWriteFailureFallsBack ==
    \A t \in Tasks :
        /\ (obs[t].rwFailed # 0 /\ obs[t].rwFailed = loc[t].k) =>
              /\ pc[t] \in {"finally", "release"}
              /\ Last(obs[t].ends) = "ReadWriteFailure"
              /\ loc[t].pend \in {"next", "AuthenticationFailure"}
        /\ Ended(t) /\ obs[t].rwFailed # 0 => loc[t].pend # "ReadWriteFailure"
        /\ Ended(t) /\ obs[t].rwFailed = Len(loc[t].key_candidates) /\ loc[t].k >= 1
              => loc[t].pend = "AuthenticationFailure"

\* a block read or write failed under a forced key and the session ends with
\* AuthenticationFailure
C9_Witness ==
    \E t \in Tasks :
        /\ Ended(t)
        /\ obs[t].rwFailed = 1 /\ Len(loc[t].key_candidates) = 1
        /\ loc[t].pend = "AuthenticationFailure"

\* C10 as stated: a payload of 49 bytes or more is rejected with
\* PayloadTooLarge before any transport call is made for that write: when
\* the size check of _write_sector has rejected a payload, no auth call was
\* made for its sector.
C10_RejectedBeforeTransport ==
    \A t \in Tasks :
        obs[t].tooLarge =>
            /\ ~(ev.t = t /\ ev.call = "auth")
            /\ Last(obs[t].ends) = "PayloadTooLarge"

\* a read_data with no forced key has returned a record, on a card that
\* holds what the last write_data that returned has written
ReadBack(t) ==
    /\ Ended(t)
    /\ fr[t].func = "read_data"
    /\ loc[t].forced_key = None
    /\ loc[t].pend = "return"
    /\ written.set

\* the characters of s without the NUL characters at its end
RECURSIVE WithoutNulEnd(_)
WithoutNulEnd(s) ==
    IF s # <<>> /\ s[Len(s)] = 0
    THEN WithoutNulEnd(SubSeq(s, 1, Len(s) - 1)) ELSE s

\* C11 as stated: after a write_data that returned, a read_data of the same
\* card with no forced key that returns gives exactly the username, the
\* identifier and the password written, the same flags, and the configured
\* meta_prefix.
C11_RoundTripExact ==
    \A t \in Tasks :
        ReadBack(t) =>
            /\ loc[t].res.d.username = written.username
            /\ loc[t].res.d.collmex_id = written.collmex_id
            /\ loc[t].res.d.password = written.password
            /\ loc[t].res.d.flags = written.flags
            /\ loc[t].res.d.meta_prefix = meta_prefix

\* C11, amended: after a write_data that returned, a read_data of the same
\* card with no forced key that returns gives the username, the identifier
\* and the password written, each without the NUL characters at its end (so
\* exactly the string written when it does not end with NUL, the empty
\* string included), the same flags, and the configured meta_prefix.
C11_RoundTripUpToNul ==
    \A t \in Tasks :
        ReadBack(t) =>
            /\ loc[t].res.d.username = WithoutNulEnd(written.username)
            /\ loc[t].res.d.collmex_id = WithoutNulEnd(written.collmex_id)
            /\ loc[t].res.d.password = WithoutNulEnd(written.password)
            /\ loc[t].res.d.flags = written.flags
            /\ loc[t].res.d.meta_prefix = meta_prefix

\* a two-byte character written with the default flags and read back
C11_Witness ==
    \E t \in Tasks :
        /\ ReadBack(t)
        /\ written.username = StrAccent /\ written.password = <<>>
        /\ written.flags = FLAG_CASH_REGISTER
        /\ loc[t].res.d.username = StrAccent

\* s is "<meta_prefix>_<digits>": it has a "_", the text before the first
\* one is the configured prefix, the text after it is decimal digits
PrefixAndDigits(s) ==
    \E i \in 1..Len(s) :
        /\ s[i] = 95 /\ \A j \in 1..(i - 1) : s[j] # 95
        /\ SubSeq(s, 1, i - 1) = meta_prefix
        /\ i < Len(s)
        /\ \A j \in (i + 1)..Len(s) : s[j] \in 48..57

\* the transport calls of read_data on its first n sectors, all answered OK
ReadCalls(n) ==
    [i \in 1..(4 * n) |->
        LET sector == 1 + ((i - 1) \div 4)
            j == (i - 1) % 4
        IN IF j = 0 THEN <<"auth", 4 * sector, TRUE>>
           ELSE <<"read", 4 * sector + j - 1, TRUE>>]

\* C12: read_data fails with UnexpectedMetaData exactly when the string of
\* the metadata sector has no "_", or the text before its first "_" is not
\* the configured prefix, or the text after it is not decimal digits; the
\* other three sectors are then not read.  Otherwise it goes on to read the
\* three sectors and, when it returns, the flags of the record are the
\* decimal value of the text after the "_".
C12_MetaDataCheck ==
    \A t \in Tasks :
        LET o == obs[t]
            m == o.meta
            done == loc[t].k >= 1 /\ Len(o.ends) = loc[t].k
        IN fr[t].func = "read_data" =>
            /\ (m # None /\ ~PrefixAndDigits(m)) =>
                  /\ done /\ Last(o.ends) = "UnexpectedMetaData"
                  /\ loc[t].pend = "UnexpectedMetaData"
                  /\ o.calls = ReadCalls(1)
            /\ (done /\ Last(o.ends) = "UnexpectedMetaData") =>
                  m # None /\ ~PrefixAndDigits(m)
            /\ (m # None /\ PrefixAndDigits(m) /\ o.calls = ReadCalls(4)) =>
                  /\ done /\ Last(o.ends) = "return"
                  /\ loc[t].res.tag = "dict"
                  /\ loc[t].res.d.flags =
                        StrToInt(SubSeq(m, Len(meta_prefix) + 2, Len(m)))
            /\ (done /\ Last(o.ends) = "return") =>
                  m # None /\ PrefixAndDigits(m) /\ o.calls = ReadCalls(4)

\* the metadata sector holds "SL_x": UnexpectedMetaData
C12_Witness ==
    \E t \in Tasks :
        /\ Ended(t) /\ fr[t].func = "read_data"
        /\ obs[t].meta = <<83, 76, 95, 120>>
        /\ loc[t].pend = "UnexpectedMetaData"

\* C13 as stated: for a sector s in 0..31 the start block is 4s and the
\* trailer block 4s+3; for a sector s in 32..39 the start block is
\* 128 + 16(s-32) and the trailer block is the start block + 15.
C13_Addressing ==
    LET s == addr.sector
        start == IF s <= 31 THEN 4 * s ELSE 128 + 16 * (s - 32)
    IN /\ addr.start # -1 => addr.start = start
       /\ addr.trailer # -1 =>
             addr.trailer = IF s <= 31 THEN 4 * s + 3 ELSE start + 15

\* the poller's session is over, with a 6-byte key configured, on a card
\* that stayed in the field, answered every transport call, carries
\* DEFAULT_KEY and holds a record
PolledRecord ==
    /\ Ended(Poller)
    /\ CUSTOM_KEY = KeyB
    /\ ~obs[Poller].fault
    /\ obs[Poller].keys0 = {DEFAULT_KEY}
    /\ PrefixAndDigits(SectorString(card, SECTOR_META))

\* C14 as stated: a poll of a card that holds a record reads it; when the
\* poll has read a record with the cash register bit the relay is driven
\* low, and high again after the pulse; with flags=0, or after a poll that
\* failed, the relay is not driven.
C14_RelayFollowsRecord ==
    /\ PolledRecord => loc[Poller].pend = "return"
    /\ (ev.call = "exit" /\ ev.t = Poller) =>
          (relay = 0 <=> (ev.ok /\ ev.res.d.flags % 2 = 1))
    /\ relay = 0 <=> pc[Poller] = "pulse"

\* C15 as stated: whatever the outcome of a poll, the poller goes back to
\* its idle wait (after the relay pulse when there is one); no outcome ends
\* the poller task.
C15_PollerKeepsPolling ==
    /\ (ev.call = "exit" /\ ev.t = Poller) => pc[Poller] \in {"sleep", "pulse"}
    /\ pc[Poller] # "dead"

\* C16: the poller holds the lock neither in its idle wait nor during the
\* relay pulse (nor after its task has ended), and under fair scheduling
\* every administrative card-session request that waits for the lock gets
\* it and completes.
C16_NoStarvation ==
    /\ [](pc[Poller] \in {"sleep", "pulse", "dead"} => reader_lock # Poller)
    /\ (pc["admin1"] = "lock") ~> (pc["admin1"] = "idle")

\* an administrative request waits for the lock while the poller holds it
C16_Witness ==
    /\ pc["admin1"] = "lock" /\ reader_lock = Poller
    /\ pc[Poller] \in {"request", "anticoll", "select"}

\* the keys a session is to use: the forced key, or DEFAULT_KEY and the
\* configured key
KeysToUse(t) ==
    IF loc[t].forced_key # None THEN {loc[t].forced_key}
    ELSE {DEFAULT_KEY, CUSTOM_KEY}

\* C17 as stated: every key given to reader.auth is 6 bytes long, and a
\* session whose forced key, or one of whose configured candidate keys (a
\* configured key that is absent included), is not 6 bytes long makes no
\* transport call.
C17_SixByteKeys ==
    /\ ev.call = "auth" => ev.key # None /\ Len(ev.key) = 6
    /\ \A t \in Tasks :
          (InSession(t) /\ \E key \in KeysToUse(t) : key = None \/ Len(key) # 6)
              => ~obs[t].touched

\* the i-th transport call of write_data: for the sectors 1, 2, 3, 4 in
\* turn, auth on the start block, then the writes of the three data blocks
WriteCallAt(i) ==
    LET sector == 1 + ((i - 1) \div 4)
        j == (i - 1) % 4
    IN IF j = 0 THEN <<"auth", 4 * sector>> ELSE <<"write", 4 * sector + j - 1>>

\* the 16 bytes write_data with arguments args puts into data block b
BlockOf(args, b) ==
    LET sector == b \div 4
        data ==
            Utf8Encode(CASE sector = 1 ->
                              meta_prefix \o <<95>> \o
                              IntToStr(IF args.flags = -1 THEN 1 ELSE args.flags)
                         [] sector = 2 -> args.username
                         [] sector = 3 -> args.collmex_id
                         [] OTHER -> args.password)
    IN [i \in 1..16 |->
          IF 16 * (b % 4) + i <= Len(data) THEN data[16 * (b % 4) + i] ELSE 0]

\* C18: in each attempt write_data works through the metadata, username,
\* identifier and password sectors in this order, each authenticated on its
\* start block and then written block by block; a call that fails is the
\* last one of the attempt, so that no block of that or of a later sector is
\* written after it; the blocks written before keep the new content; and
\* write_data returns only after all twelve blocks are written.
C18_WriteOrder ==
    \A t \in Tasks :
        LET calls == obs[t].calls IN
        fr[t].func = "write_data" =>
            /\ Len(calls) <= 16
            /\ \A i \in 1..Len(calls) :
                  /\ <<calls[i][1], calls[i][2]>> = WriteCallAt(i)
                  /\ i < Len(calls) => calls[i][3]
                  /\ (calls[i][1] = "write" /\ calls[i][3]) =>
                        card[calls[i][2]] = BlockOf(fr[t].args, calls[i][2])
            /\ (calls # <<>> /\ ~Last(calls)[3]) => pc[t] \in {"finally", "release"}
            /\ (loc[t].k >= 1 /\ Len(obs[t].ends) = loc[t].k) =>
                  /\ pc[t] \in {"finally", "release"}
                  /\ Last(obs[t].ends) = "return" =>
                        Len(calls) = 16 /\ Last(calls)[3]

\* the metadata sector is written, then a block write of the username
\* sector fails
C18_Witness ==
    \E t \in Tasks :
        /\ Ended(t) /\ fr[t].func = "write_data"
        /\ Len(obs[t].calls) = 7 /\ ~obs[t].calls[7][3]
        /\ obs[t].calls[6] = <<"write", 8, TRUE>>
        /\ card[8] = BlockOf(fr[t].args, 8)
        /\ card[9] # BlockOf(fr[t].args, 9)

\* C19 as stated: the key candidates of a card session of the poller are
\* [DEFAULT], and the poller makes no auth call with another key.
C19_PollerDefaultKeyOnly ==
    /\ (InSession(Poller) /\ loc[Poller].k >= 1) =>
          loc[Poller].key_candidates = <<DEFAULT_KEY>>
    /\ (ev.call = "auth" /\ ev.t = Poller) => ev.key = DEFAULT_KEY

\* the i-th transport call of set_key_for_all_sectors: for the sectors 1, 2,
\* 3, 4 in turn, auth on the trailer block 4s+3, then the write of it
RekeyCallAt(i) ==
    LET sector == 1 + ((i - 1) \div 2) IN
    <<IF i % 2 = 1 THEN "auth" ELSE "write", 4 * sector + 3>>

\* C20: in each attempt set_key_for_all_sectors works through the metadata,
\* username, identifier and password sectors in this order; for each it
\* authenticates with the attempt's key (the old key, when it is accepted)
\* on the sector's trailer block and only then writes to that block
\* new_key + FF 07 80 69 + new_key; when it has returned, the four sectors
\* authenticate with the new key.
C20_Rekey ==
    \A t \in Tasks :
        LET calls == obs[t].calls
            nk == fr[t].args.new_key
        IN fr[t].func = "set_key_for_all_sectors" =>
            /\ Len(calls) <= 8
            /\ \A i \in 1..Len(calls) :
                  /\ <<calls[i][1], calls[i][2]>> = RekeyCallAt(i)
                  /\ i < Len(calls) => calls[i][3]
                  /\ (calls[i][1] = "write" /\ calls[i][3]) =>
                        card[calls[i][2]] = nk \o <<255, 7, 128, 105>> \o nk
            /\ (ev.t = t /\ ev.call = "auth") =>
                  /\ ev.key = loc[t].key_candidates[loc[t].k]
                  /\ ev.ok => SubSeq(card[ev.block], 1, 6) = ev.key
            /\ (loc[t].k >= 1 /\ Len(obs[t].ends) = loc[t].k
                /\ Last(obs[t].ends) = "return") =>
                  /\ Len(calls) = 8 /\ Last(calls)[3]
                  /\ Len(nk) = 6
                  /\ \A b \in Blocks : AuthAccepts(card, b, nk)

\* a card under DEFAULT_KEY has been given the configured key
C20_Witness ==
    \E t \in Tasks :
        /\ Ended(t) /\ fr[t].func = "set_key_for_all_sectors"
        /\ loc[t].pend = "return"
        /\ obs[t].keys0 = {DEFAULT_KEY}
        /\ fr[t].args.new_key = KeyB
        /\ KeysOf(card) = {KeyB}

Prepared(pre) ==
    /\ Len(pre) >= 3
    /\ SubSeq(pre, Len(pre) - 2, Len(pre)) =
           << <<"request", TRUE>>, <<"anticoll", TRUE>>, <<"select_tag", TRUE>> >>
    /\ \A i \in 1..(Len(pre) - 3) : pre[i] = <<"request", FALSE>>

\* the sector a block of the card belongs to
SectorOf(block) == block \div 4

\* C22: every auth, read and write of an attempt comes after a successful
\* request, a successful anticoll whose UID is the required one when one was
\* given, and a successful select_tag, all of the same attempt; the auth uses
\* the key of the attempt; and every read or write of a block comes after a
\* successful auth of the same attempt on a block of the same sector, with
\* no auth on another sector in between.
C22_ProtocolOrder ==
    \A t \in Tasks :
        LET calls == obs[t].calls IN
        /\ calls # <<>> => Prepared(obs[t].pre)
        /\ \A i \in 1..Len(calls) :
              calls[i][1] \in {"read", "write"} =>
                  \E j \in 1..(i - 1) :
                      /\ calls[j][1] = "auth" /\ calls[j][3]
                      /\ SectorOf(calls[j][2]) = SectorOf(calls[i][2])
                      /\ \A m \in (j + 1)..(i - 1) : calls[m][1] # "auth"
        /\ (ev.t = t /\ ev.call \in {"auth", "read", "write"}) =>
              /\ calls # <<>> /\ Last(calls) = <<ev.call, ev.block, ev.ok>>
              /\ loc[t].uid = UidCard
              /\ loc[t].forced_uid # None => loc[t].uid = loc[t].forced_uid
              /\ ev.call = "auth" => ev.key = loc[t].key_candidates[loc[t].k]

\* a block is written in the second attempt of a session that required the
\* UID of the card, after a presence request of that attempt had failed
C22_Witness ==
    \E t \in Tasks :
        /\ ev.t = t /\ ev.call = "write" /\ ev.ok
        /\ loc[t].forced_uid = UidCard
        /\ loc[t].k = 2
        /\ Len(obs[t].pre) > 3

\* a call whose arguments cannot fail before the card is addressed: the
\* positional ones bind (line 205), every key candidate is a key of six
\* bytes (lines 122-129, 159-162) and so is the new key of a rekey (line 483)
WellFormedCall(t) ==
    /\ BindsArguments(fr[t])
    /\ loc[t].key_candidates # <<>>
    /\ \A i \in 1..Len(loc[t].key_candidates) :
          loc[t].key_candidates[i] # None
    /\ fr[t].func = "set_key_for_all_sectors" =>
          /\ fr[t].args.new_key # None
          /\ ~NormalizeKeyRaises(fr[t].args.new_key)

\* C23: a card session that does not return the result of its operation
\* ends with NoCardDetected, AccessDenied, AuthenticationFailure,
\* ReadWriteFailure, UnexpectedMetaData or PayloadTooLarge; stated for the
\* calls with well-formed arguments, where the failure can only come from
\* the card and the transport.
C23_ClosedFailureFamily ==
    \A t \in Tasks :
        (Ended(t) /\ WellFormedCall(t) /\ loc[t].pend # "return") =>
            loc[t].pend \in RFIDException \cup {"PayloadTooLarge"}

\* key A a sector of the card carries
SectorKey(c, sector) == KeyOfBlock(c, get_sector_trailer(sector))

\* C24: when the four sectors carried one key at the start of a session of
\* set_key_for_all_sectors, then at every point of the session, its failed
\* attempts and its end included, each sector carries the old key or the
\* new key and the sectors that carry the new key are the first ones in the
\* order metadata, username, identifier, password.
C24_RekeyPrefix ==
    \A t \in Tasks :
        (InSession(t) /\ fr[t].func = "set_key_for_all_sectors"
         /\ Cardinality(obs[t].keys0) = 1) =>
            LET old == CHOOSE k \in obs[t].keys0 : TRUE
                new == fr[t].args.new_key
                order == <<SECTOR_META, SECTOR_USERNAME, SECTOR_COLLMEX_ID,
                           SECTOR_PASSWORD>>
            IN \A i \in 1..4 :
                  /\ SectorKey(card, order[i]) \in {old, new}
                  /\ (i > 1 /\ new # old /\ SectorKey(card, order[i]) = new) =>
                        SectorKey(card, order[i - 1]) = new

\* a rekey from DEFAULT_KEY to the configured key whose write to the
\* username trailer failed: the second attempt, under the configured key,
\* was accepted by the metadata sector only, and the session ended with the
\* metadata sector under the new key and the three others under the old one
C24_Witness ==
    \E t \in Tasks :
        /\ Ended(t) /\ fr[t].func = "set_key_for_all_sectors"
        /\ obs[t].keys0 = {DEFAULT_KEY}
        /\ fr[t].args.new_key = KeyB
        /\ obs[t].rwFailed = 1
        /\ loc[t].k = 2
        /\ loc[t].pend = "AuthenticationFailure"
        /\ SectorKey(card, SECTOR_META) = KeyB
        /\ \A s \in {SECTOR_USERNAME, SECTOR_COLLMEX_ID, SECTOR_PASSWORD} :
              SectorKey(card, s) = DEFAULT_KEY

=============================================================================
